---- MODULE Spec2Model ----
(***************************************************************************)
(* Model of the per-work-item engine of src/src/time_history_analysis.py:   *)
(* the wrapper time_history_analysis (lines 18-27) and the item body        *)
(* _time_history_analysis (lines 29-186), run by several worker processes   *)
(* that share one queue, one stop event, one pause event and one lock.      *)
(*                                                                         *)
(* Every worker executes one item.  A step of a worker is one externally    *)
(* visible operation of the code (a shared-memory attach, a poll of an      *)
(* event, a call of the material function or of a solver back-end, a lock   *)
(* operation, a file write, a queue.put) together with the local            *)
(* assignments that follow it.  What the environment answers (does the      *)
(* segment exist, what does the back-end return, does the write fail) is    *)
(* drawn at the step and logged in oracle.                                  *)
(***************************************************************************)
EXTENDS Integers, Sequences, FiniteSets, TLC

\* ---------------------------------------------------------------- bounds
\* the number of ground motions the items are drawn from
NumGMs == 2

\* Two worker processes of the pool, each running one item.
Workers == {1, 2}
GMs == 1..NumGMs

\* Python's None where the code expects a number (Ti, Sa, uy) ...
None == -1
\* ... and where it expects an object (a dict, a tuple, an exception).
NoneObj == [none |-> TRUE]

\* The solver identifiers of the dispatch (lines 125, 131, 134) and one
\* identifier that is none of them (line 137).
Solvers == {"auto", "OPS", "Newmark-Newton", "Bogus"}

\* Ti is a period or None (lines 110-113).
Periods == {1, None}

\* module_attr (lines 100-103): module name -> attribute holding the solver
module_attr == [newmark |-> "newmark_solver", ops_solver |-> "ops_solver"]

\* a priority list that tries ops_solver first
AutoOrderSwapped == <<"ops_solver", "newmark">>

\* the priority list of the 'auto' loop (line 126)
AutoOrder == <<"newmark", "ops_solver">>

\* ------------------------------------------------------------- state
VARIABLES
    pc,                \* position of each worker in the code
    item,              \* the arguments the worker was invoked with
    stop_event,        \* multiprocessing.Event: TRUE when set
    pause_event,       \* multiprocessing.Event: TRUE when set (not paused)
    lock,              \* multiprocessing.Lock: 0 when free, else the holder
    queue,             \* the messages put on the queue, in order
    files,             \* the artifacts of the output area wkdir/subfolder
    Sa,                \* local Sa (lines 110-113)
    mat,               \* local (Fy, E) of the material function (line 114)
    uy,                \* local uy (line 115)
    cand,              \* the solver modules still to try (lines 125-137)
    res,               \* local res (lines 128, 133, 136)
    solving_converge,  \* local solving_converge (lines 105, 143)
    results,           \* local DataFrame results (lines 98, 167-177)
    error,             \* the exception the item body raised, NoneObj when none
    oracle,            \* history: what the environment answered, in order
    writes,            \* history: the artifact writes of the worker, in order
    waited,            \* history: the worker blocked in pause_event.wait()
    stopAtEntry,       \* history: stop_event at the worker's invocation
    pausedSince        \* history: pause_event has been clear since the invocation

vars == <<pc, item, stop_event, pause_event, lock, queue, files, Sa, mat, uy,
          cand, res, solving_converge, results, error, oracle, writes,
          waited, stopAtEntry, pausedSince>>

env == <<stop_event, pause_event>>
locals == <<Sa, mat, uy, cand, res, solving_converge, results>>
outputs == <<queue, files, writes>>

Items == [solver : Solvers, GM_name : GMs, Ti : Periods]

\* The items a worker can be called with.  GM_name is a label the code only
\* puts into file names and messages (lines 144, 149, 182-185), so the
\* ground motion of the first worker is called 1: every other run is this
\* one with the ground motions renamed.
ItemsOf(w) == {it \in Items : w = 1 => it.GM_name = 1}

\* No artifact exists: {GM_name}.csv (its rows), {GM_name}.npy, warnings/c.json.
NoFiles == [csv |-> [g \in GMs |-> <<>>], npy |-> [g \in GMs |-> NoneObj], warn |-> NoneObj]

Init ==
    /\ pc = [w \in Workers |-> "Idle"]
    /\ item = [w \in Workers |-> NoneObj]
    /\ stop_event = FALSE
    /\ pause_event = TRUE
    /\ lock = 0
    /\ queue = <<>>
    /\ files = NoFiles
    /\ Sa = [w \in Workers |-> None]
    /\ mat = [w \in Workers |-> NoneObj]
    /\ uy = [w \in Workers |-> None]
    /\ cand = [w \in Workers |-> <<>>]
    /\ res = [w \in Workers |-> NoneObj]
    /\ solving_converge = [w \in Workers |-> 1]
    /\ results = [w \in Workers |-> <<>>]
    /\ error = [w \in Workers |-> NoneObj]
    /\ oracle = [w \in Workers |-> <<>>]
    /\ writes = [w \in Workers |-> <<>>]
    /\ waited = [w \in Workers |-> FALSE]
    /\ stopAtEntry = [w \in Workers |-> FALSE]
    /\ pausedSince = [w \in Workers |-> FALSE]

\* ------------------------------------------------------------ helpers
\* The grids copied from shared memory (lines 87-92) and the interpolator
\* built from them (line 93): linear between the two bracketing grid points,
\* the edge segment's line outside the grid (fill_value='extrapolate').
PeriodGrid == <<1, 3>>
SaGrid == <<4, 8>>

Bracket(T) ==
    IF \E i \in 1..(Len(PeriodGrid) - 1) : PeriodGrid[i] <= T /\ T <= PeriodGrid[i + 1]
    THEN CHOOSE i \in 1..(Len(PeriodGrid) - 1) : PeriodGrid[i] <= T /\ T <= PeriodGrid[i + 1]
    ELSE IF T < PeriodGrid[1] THEN 1 ELSE Len(PeriodGrid) - 1

get_Sa(T) ==
    LET i == Bracket(T)
    IN  SaGrid[i] + ((T - PeriodGrid[i]) * (SaGrid[i + 1] - SaGrid[i]))
                        \div (PeriodGrid[i + 1] - PeriodGrid[i])

\* What the material function can return as (Fy, E) (line 114); it is a
\* parameter of the item, any function of the user.
MatResults == [steel |-> [Fy |-> 6, E |-> 2]]
MatOutcomes == DOMAIN MatResults \cup {"raise"}

\* What a back-end call can do: return res with converge true or false, or raise.
SolveOutcomes == {"converged", "unconverged", "raise"}

\* What an attach and a file write can do.
IoOutcomes == {"ok", "fail"}

\* The maximal displacement a back-end reports in res (line 168).
MaxDispOf == [newmark_solver |-> 6, ops_solver |-> 12]

\* An exception: its value and the formatted trace of traceback.format_exc(),
\* which lists the chain of exceptions, the one being handled first.
Exc(name) == [exc |-> name, tb |-> <<name>>]

\* raise SDOFError('Solver error!') inside the bare except of lines 139-140:
\* the new exception replaces the one caught, which stays in the trace only.
SolverError(caught) ==
    [exc |-> "SDOFError: Solver error!",
     tb |-> Append(caught.tb, "SDOFError: Solver error!")]

Msg(k, w, b) == [kind |-> k, from |-> w, body |-> b]

Log(h, w, e) == [h EXCEPT ![w] = Append(@, e)]

\* an exception that no except clause catches: the call ends without a message
RaiseEscapes(w, e) ==
    /\ error' = [error EXCEPT ![w] = e]
    /\ pc' = [pc EXCEPT ![w] = "Done"]

\* An exception leaves _time_history_analysis: control goes to the except
\* clause of the wrapper (line 24).
Raise(w, e) ==
    /\ error' = [error EXCEPT ![w] = e]
    /\ pc' = [pc EXCEPT ![w] = "ReportFatal"]

Goto(w, l) == pc' = [pc EXCEPT ![w] = l]

\* ------------------------------------------------------------ actions
\* The pool calls time_history_analysis(*args) in a worker (lines 18-23).
time_history_analysis(w, it) ==
    /\ pc[w] = "Idle"
    /\ item' = [item EXCEPT ![w] = it]
    /\ stopAtEntry' = [stopAtEntry EXCEPT ![w] = stop_event]
    /\ pausedSince' = [pausedSince EXCEPT ![w] = ~pause_event]
    /\ Goto(w, "Fetch")
    /\ UNCHANGED <<env, lock, locals, outputs, error, oracle, waited>>

\* Lines 87-105: attach the three segments by name and copy them, build the
\* interpolator, create the empty results table, solving_converge = 1.
\* SharedMemory(name=...) raises FileNotFoundError when the segment is gone.
Fetch(w, ok) ==
    /\ pc[w] = "Fetch"
    /\ oracle' = Log(oracle, w, [step |-> "attach", out |-> ok])
    /\ IF ok = "ok"
       THEN /\ results' = [results EXCEPT ![w] = <<>>]
            /\ solving_converge' = [solving_converge EXCEPT ![w] = 1]
            /\ Goto(w, "CheckStop")
            /\ UNCHANGED error
       ELSE /\ Raise(w, Exc("FileNotFoundError"))
            /\ UNCHANGED <<results, solving_converge>>
    /\ UNCHANGED <<item, env, lock, Sa, mat, uy, cand, res, outputs, waited, stopAtEntry, pausedSince>>

\* Lines 106-108: the one poll of the stop event.
CheckStop(w) ==
    /\ pc[w] = "CheckStop"
    /\ oracle' = Log(oracle, w, [step |-> "stop", out |-> IF stop_event THEN "set" ELSE "clear"])
    /\ IF stop_event
       THEN /\ queue' = Append(queue, Msg("e", w, "interrupted"))
            /\ Goto(w, "Done")
       ELSE /\ Goto(w, "PauseWait")
            /\ UNCHANGED queue
    /\ UNCHANGED <<item, env, lock, locals, files, writes, error, waited, stopAtEntry, pausedSince>>

\* a pause wait that polls the stop event again when it wakes up
PauseWaitRepoll(w) ==
    /\ pc[w] = "PauseWait"
    /\ IF pause_event
       THEN /\ IF waited[w] /\ stop_event
               THEN queue' = Append(queue, Msg("e", w, "interrupted")) /\ Goto(w, "Done")
               ELSE Goto(w, "Material") /\ UNCHANGED queue
            /\ UNCHANGED waited
       ELSE /\ waited' = [waited EXCEPT ![w] = TRUE]
            /\ UNCHANGED <<pc, queue>>
    /\ UNCHANGED <<item, env, lock, locals, files, writes, error, oracle, stopAtEntry, pausedSince>>

\* Line 109: pause_event.wait() returns once the event is set and blocks
\* while it is clear.
PauseWait(w) ==
    /\ pc[w] = "PauseWait"
    /\ IF pause_event
       THEN /\ Goto(w, "Material")
            /\ UNCHANGED waited
       ELSE /\ waited' = [waited EXCEPT ![w] = TRUE]
            /\ UNCHANGED pc
    /\ UNCHANGED <<item, env, lock, locals, outputs, error, oracle, stopAtEntry, pausedSince>>

\* Lines 110-121: the spectral lookup (skipped when Ti is None), the one call
\* of the material function, uy = Fy / E, and fv_duration =
\* max(fv_duration, fv_factor * Ti), which raises TypeError when Ti is None.
Material(w, m) ==
    /\ pc[w] = "Material"
    /\ Sa' = [Sa EXCEPT ![w] = IF item[w].Ti # None THEN get_Sa(item[w].Ti) ELSE None]
    /\ oracle' = Log(oracle, w, [step |-> "material", out |-> m])
    /\ IF m = "raise"
       THEN /\ Raise(w, Exc("MaterialException"))
            /\ UNCHANGED <<mat, uy>>
       ELSE /\ mat' = [mat EXCEPT ![w] = MatResults[m]]
            /\ uy' = [uy EXCEPT ![w] = MatResults[m].Fy \div MatResults[m].E]
            /\ IF item[w].Ti = None
               THEN Raise(w, Exc("TypeError"))
               ELSE Goto(w, "Dispatch") /\ UNCHANGED error
    /\ UNCHANGED <<item, env, lock, cand, res, solving_converge, results, outputs,
                   waited, stopAtEntry, pausedSince>>

\* Lines 125-127, 131-132, 134-135, 137-140: the choice of the back-ends by
\* the solver identifier.  An unknown identifier raises SDOFError('Wrong
\* solver name') inside the try, which the bare except turns into
\* SDOFError('Solver error!').
CandidatesWithFallback(solver) ==
    CASE solver = "auto" -> AutoOrder
      [] solver = "OPS" -> <<"ops_solver", "newmark">>
      [] solver = "Newmark-Newton" -> <<"newmark", "ops_solver">>
      [] OTHER -> <<>>

Candidates(solver) ==
    CASE solver = "auto" -> AutoOrder
      [] solver = "OPS" -> <<"ops_solver">>
      [] solver = "Newmark-Newton" -> <<"newmark">>
      [] OTHER -> <<>>

Dispatch(w) ==
    /\ pc[w] = "Dispatch"
    /\ IF item[w].solver \in {"auto", "OPS", "Newmark-Newton"}
       THEN /\ cand' = [cand EXCEPT ![w] = Candidates(item[w].solver)]
            /\ Goto(w, "Solve")
            /\ UNCHANGED error
       ELSE /\ Raise(w, SolverError(Exc("SDOFError: Wrong solver name")))
            /\ UNCHANGED cand
    /\ UNCHANGED <<item, env, lock, Sa, mat, uy, res, solving_converge, results,
                   outputs, oracle, waited, stopAtEntry, pausedSince>>

\* a ladder that takes an exception of a back-end as a reason to try the next
SolveAbsorbsRaise(w, out) ==
    /\ pc[w] = "Solve"
    /\ cand[w] # <<>>
    /\ LET func == module_attr[Head(cand[w])]
       IN  /\ oracle' = Log(oracle, w, [step |-> func, out |-> out])
           /\ IF out = "raise" /\ Tail(cand[w]) = <<>>
              THEN /\ Raise(w, SolverError(Exc("SolverException")))
                   /\ UNCHANGED <<res, cand>>
              ELSE /\ res' = [res EXCEPT ![w] =
                                IF out = "raise" THEN @
                                ELSE [by |-> func, converge |-> (out = "converged"),
                                      maxDisp |-> MaxDispOf[func]]]
                   /\ cand' = [cand EXCEPT ![w] = Tail(@)]
                   /\ IF out = "converged" \/ Tail(cand[w]) = <<>>
                      THEN Goto(w, "ConvergenceCheck")
                      ELSE UNCHANGED pc
                   /\ UNCHANGED error
    /\ UNCHANGED <<item, env, lock, Sa, mat, uy, solving_converge, results, outputs,
                   waited, stopAtEntry, pausedSince>>

\* Lines 128-130, 133, 136, 139-140: one call of a back-end.  It returns res
\* with its converge flag, or raises; under 'auto' the loop goes on to the
\* next module unless res['converge'].
Solve(w, out) ==
    /\ pc[w] = "Solve"
    /\ cand[w] # <<>>
    /\ LET func == module_attr[Head(cand[w])]
       IN  /\ oracle' = Log(oracle, w, [step |-> func, out |-> out])
           /\ IF out = "raise"
              THEN /\ Raise(w, SolverError(Exc("SolverException")))
                   /\ UNCHANGED <<res, cand>>
              ELSE /\ res' = [res EXCEPT ![w] =
                                [by |-> func, converge |-> (out = "converged"),
                                 maxDisp |-> MaxDispOf[func]]]
                   /\ cand' = [cand EXCEPT ![w] = Tail(@)]
                   /\ IF out = "converged" \/ Tail(cand[w]) = <<>>
                      THEN Goto(w, "ConvergenceCheck")
                      ELSE UNCHANGED pc
                   /\ UNCHANGED error
    /\ UNCHANGED <<item, env, lock, Sa, mat, uy, solving_converge, results, outputs,
                   waited, stopAtEntry, pausedSince>>

\* an acquire that does not wait for the holder
acquireNoWait(w) == lock' = w

\* lock.acquire() blocks while another process holds the lock
acquire(w) == lock = 0 /\ lock' = w

\* a release that is left out
releaseForgotten(w) == UNCHANGED lock

\* lock.release()
release(w) == lock' = 0

\* Lines 147-161: the dict unconverged_res (the fields the model carries).
unconverged_res(w) ==
    [period |-> item[w].Ti, ground_motion |-> item[w].GM_name,
     uy |-> uy[w], E |-> mat[w].E, Fy |-> mat[w].Fy]

\* Line 144: the body of the warning, (GM_name, Ti, solver_paras[3:]);
\* solver_paras[3:] starts with mat_paras and uy (line 121).
WarningBody(w) ==
    [GM_name |-> item[w].GM_name, Ti |-> item[w].Ti,
     paras |-> [mat_paras |-> mat[w], uy |-> uy[w]]]

\* a check that posts the warning but leaves solving_converge at 1
ConvergenceCheckKeepsFlag(w) ==
    /\ pc[w] = "ConvergenceCheck"
    /\ IF ~res[w].converge
       THEN /\ queue' = Append(queue, Msg("b", w, WarningBody(w)))
            /\ Goto(w, "AcquireDiag")
       ELSE /\ Goto(w, "Record")
            /\ UNCHANGED queue
    /\ UNCHANGED <<item, env, lock, locals, files, writes, error, oracle, waited, stopAtEntry, pausedSince>>

\* Lines 141-144: the check of res['converge']; a result that did not
\* converge clears solving_converge and posts the warning.
ConvergenceCheck(w) ==
    /\ pc[w] = "ConvergenceCheck"
    /\ IF ~res[w].converge
       THEN /\ solving_converge' = [solving_converge EXCEPT ![w] = 0]
            /\ queue' = Append(queue, Msg("b", w, WarningBody(w)))
            /\ Goto(w, "AcquireDiag")
       ELSE /\ Goto(w, "Record")
            /\ UNCHANGED <<solving_converge, queue>>
    /\ UNCHANGED <<item, env, lock, Sa, mat, uy, cand, res, results, files, writes,
                   error, oracle, waited, stopAtEntry, pausedSince>>

\* Line 162
AcquireDiag(w) ==
    /\ pc[w] = "AcquireDiag"
    /\ acquire(w)
    /\ Goto(w, "WriteDiag")
    /\ UNCHANGED <<item, env, locals, outputs, error, oracle, waited, stopAtEntry, pausedSince>>

\* Lines 163-165: json.dump of unconverged_res into warnings/c.json, a file
\* name that is the same for every item.  A failing write (OSError, or a
\* value json cannot encode) raises with the lock still held.
WriteDiag(w, ok) ==
    /\ pc[w] = "WriteDiag"
    /\ oracle' = Log(oracle, w, [step |-> "json.dump", out |-> ok])
    /\ IF ok = "ok"
       THEN /\ files' = [files EXCEPT !.warn = unconverged_res(w)]
            /\ writes' = Log(writes, w, [file |-> "c.json", content |-> unconverged_res(w)])
            /\ Goto(w, "ReleaseDiag")
            /\ UNCHANGED error
       ELSE /\ Raise(w, Exc("OSError"))
            /\ UNCHANGED <<files, writes>>
    /\ UNCHANGED <<item, env, lock, locals, queue, waited, stopAtEntry, pausedSince>>

\* Line 166
ReleaseDiag(w) ==
    /\ pc[w] = "ReleaseDiag"
    /\ release(w)
    /\ Goto(w, "Record")
    /\ UNCHANGED <<item, env, locals, outputs, error, oracle, waited, stopAtEntry, pausedSince>>

\* a row whose ductility divides by the yield force
RowMiuByFy(w) ==
    [T |-> item[w].Ti, E |-> mat[w].E, Fy |-> mat[w].Fy,
     uy |-> mat[w].Fy \div mat[w].E, Sa |-> Sa[w],
     miu |-> res[w].maxDisp \div mat[w].Fy, maxDisp |-> res[w].maxDisp,
     solving_converge |-> solving_converge[w]]

\* Lines 167-177: the row of the summary table.
Row(w) ==
    [T |-> item[w].Ti, E |-> mat[w].E, Fy |-> mat[w].Fy,
     uy |-> mat[w].Fy \div mat[w].E, Sa |-> Sa[w],
     miu |-> res[w].maxDisp \div uy[w], maxDisp |-> res[w].maxDisp,
     solving_converge |-> solving_converge[w]]

\* Line 180: res_data, the stacked time series of the kept result.
res_data(w) == [series_of |-> res[w].by]

\* a recording that posts the success message before the artifacts are written
RecordReportsFirst(w) ==
    /\ pc[w] = "Record"
    /\ results' = [results EXCEPT ![w] = Append(@, Row(w))]
    /\ queue' = Append(queue, Msg("a", w, [GM_name |-> item[w].GM_name, num_ana |-> 1,
                                          solving_converge |-> solving_converge[w]]))
    /\ Goto(w, "AcquireRec")
    /\ UNCHANGED <<item, env, lock, Sa, mat, uy, cand, res, solving_converge, files, writes,
                   error, oracle, waited, stopAtEntry, pausedSince>>

\* Lines 167-180: the row is appended to the worker's own results table.
Record(w) ==
    /\ pc[w] = "Record"
    /\ results' = [results EXCEPT ![w] = Append(@, Row(w))]
    /\ Goto(w, "AcquireRec")
    /\ UNCHANGED <<item, env, lock, Sa, mat, uy, cand, res, solving_converge, outputs,
                   error, oracle, waited, stopAtEntry, pausedSince>>

\* Line 181
AcquireRec(w) ==
    /\ pc[w] = "AcquireRec"
    /\ acquire(w)
    /\ Goto(w, "WriteCsv")
    /\ UNCHANGED <<item, env, locals, outputs, error, oracle, waited, stopAtEntry, pausedSince>>

\* Line 182: results.to_csv writes the whole table of this worker over
\* {GM_name}.csv.
WriteCsv(w, ok) ==
    /\ pc[w] = "WriteCsv"
    /\ oracle' = Log(oracle, w, [step |-> "to_csv", out |-> ok])
    /\ IF ok = "ok"
       THEN /\ files' = [files EXCEPT !.csv[item[w].GM_name] = results[w]]
            /\ writes' = Log(writes, w, [file |-> "csv", content |-> results[w]])
            /\ Goto(w, "WriteNpy")
            /\ UNCHANGED error
       ELSE /\ Raise(w, Exc("OSError"))
            /\ UNCHANGED <<files, writes>>
    /\ UNCHANGED <<item, env, lock, locals, queue, waited, stopAtEntry, pausedSince>>

\* Line 183: np.save writes res_data over {GM_name}.npy.
WriteNpy(w, ok) ==
    /\ pc[w] = "WriteNpy"
    /\ oracle' = Log(oracle, w, [step |-> "np.save", out |-> ok])
    /\ IF ok = "ok"
       THEN /\ files' = [files EXCEPT !.npy[item[w].GM_name] = res_data(w)]
            /\ writes' = Log(writes, w, [file |-> "npy", content |-> res_data(w)])
            /\ Goto(w, "ReleaseRec")
            /\ UNCHANGED error
       ELSE /\ Raise(w, Exc("OSError"))
            /\ UNCHANGED <<files, writes>>
    /\ UNCHANGED <<item, env, lock, locals, queue, waited, stopAtEntry, pausedSince>>

\* Line 184
ReleaseRec(w) ==
    /\ pc[w] = "ReleaseRec"
    /\ release(w)
    /\ Goto(w, "ReportSuccess")
    /\ UNCHANGED <<item, env, locals, outputs, error, oracle, waited, stopAtEntry, pausedSince>>

\* a report that polls the stop event once more
ReportSuccessUnlessStopped(w) ==
    /\ pc[w] = "ReportSuccess"
    /\ queue' = Append(queue,
                       IF stop_event THEN Msg("e", w, "interrupted")
                       ELSE Msg("a", w, [GM_name |-> item[w].GM_name, num_ana |-> 1,
                                         solving_converge |-> solving_converge[w]]))
    /\ Goto(w, "Done")
    /\ UNCHANGED <<item, env, lock, locals, files, writes, error, oracle, waited, stopAtEntry, pausedSince>>

\* Lines 185-186: the success message (GM_name, num_ana, 1, None,
\* solving_converge, start_time, end_time, None), then return.
ReportSuccess(w) ==
    /\ pc[w] = "ReportSuccess"
    /\ queue' = Append(queue, Msg("a", w, [GM_name |-> item[w].GM_name, num_ana |-> 1,
                                          solving_converge |-> solving_converge[w]]))
    /\ Goto(w, "Done")
    /\ UNCHANGED <<item, env, lock, locals, files, writes, error, oracle, waited, stopAtEntry, pausedSince>>

\* a wrapper that swallows the exception and posts nothing
ReportFatalSilent(w) ==
    /\ pc[w] = "ReportFatal"
    /\ Goto(w, "Done")
    /\ UNCHANGED <<item, env, lock, locals, outputs, error, oracle, waited, stopAtEntry, pausedSince>>

\* Lines 24-27: the wrapper catches the exception, posts (error, tb), returns.
ReportFatal(w) ==
    /\ pc[w] = "ReportFatal"
    /\ queue' = Append(queue, Msg("d", w, [error |-> error[w].exc, tb |-> error[w].tb]))
    /\ Goto(w, "Done")
    /\ UNCHANGED <<item, env, lock, locals, files, writes, error, oracle, waited, stopAtEntry, pausedSince>>

\* ------------------------------------------------- the coordinator's side
\* stop_event.set()
SetStop ==
    /\ ~stop_event
    /\ stop_event' = TRUE
    /\ UNCHANGED <<pc, item, pause_event, lock, locals, outputs, error, oracle, waited,
                   stopAtEntry, pausedSince>>

\* pause_event.clear()
PauseHold ==
    /\ pause_event
    /\ pause_event' = FALSE
    /\ UNCHANGED <<pc, item, stop_event, lock, locals, outputs, error, oracle, waited,
                   stopAtEntry, pausedSince>>

\* pause_event.set()
PauseRelease ==
    /\ ~pause_event
    /\ pause_event' = TRUE
    /\ pausedSince' = [w \in Workers |-> FALSE]
    /\ UNCHANGED <<pc, item, stop_event, lock, locals, outputs, error, oracle, waited,
                   stopAtEntry>>

\* ------------------------------------------------------- specification
Next ==
    \/ \E w \in Workers : \E it \in ItemsOf(w) : time_history_analysis(w, it)
    \/ \E w \in Workers, ok \in IoOutcomes : Fetch(w, ok)
    \/ \E w \in Workers : CheckStop(w)
    \/ \E w \in Workers : PauseWait(w)
    \/ \E w \in Workers, m \in MatOutcomes : Material(w, m)
    \/ \E w \in Workers : Dispatch(w)
    \/ \E w \in Workers, out \in SolveOutcomes : Solve(w, out)
    \/ \E w \in Workers : ConvergenceCheck(w)
    \/ \E w \in Workers : AcquireDiag(w)
    \/ \E w \in Workers, ok \in IoOutcomes : WriteDiag(w, ok)
    \/ \E w \in Workers : ReleaseDiag(w)
    \/ \E w \in Workers : Record(w)
    \/ \E w \in Workers : AcquireRec(w)
    \/ \E w \in Workers, ok \in IoOutcomes : WriteCsv(w, ok)
    \/ \E w \in Workers, ok \in IoOutcomes : WriteNpy(w, ok)
    \/ \E w \in Workers : ReleaseRec(w)
    \/ \E w \in Workers : ReportSuccess(w)
    \/ \E w \in Workers : ReportFatal(w)
    \/ SetStop
    \/ PauseHold
    \/ PauseRelease

Spec == Init /\ [][Next]_vars

\* ------------------------------------------------- observations on a state
Started(w) == pc[w] # "Idle"
Returned(w) == pc[w] = "Done"

\* the messages a worker has posted, in order, and their kinds
MsgsOf(w) == SelectSeq(queue, LAMBDA m : m.from = w)
Kinds(w) == [i \in 1..Len(MsgsOf(w)) |-> MsgsOf(w)[i].kind]

\* the back-end calls of a worker, in order
IsCall(e) == e.step \in {"newmark_solver", "ops_solver"}
Calls(w) == SelectSeq(oracle[w], IsCall)

\* the worker is past the dispatch with a result to record
Recording(w) ==
    pc[w] \in {"ConvergenceCheck", "AcquireDiag", "WriteDiag", "ReleaseDiag", "Record",
               "AcquireRec", "WriteCsv", "WriteNpy", "ReleaseRec", "ReportSuccess"}

\* the worker holds the lock for an artifact write
InWrite(w) == pc[w] \in {"WriteDiag", "ReleaseDiag", "WriteCsv", "WriteNpy", "ReleaseRec"}

\* the worker is blocked in lock.acquire()
Blocked(w) == pc[w] \in {"AcquireDiag", "AcquireRec"} /\ lock # 0

\* ------------------------------------------------------------------ C1
\* The back-end whose result the 'auto' ladder keeps, given the calls made:
\* the first that reported convergence, else the last one called.
KeptBy(c) ==
    IF \E i \in 1..Len(c) : c[i].out = "converged"
    THEN c[CHOOSE i \in 1..Len(c) : c[i].out = "converged"
                                    /\ \A j \in 1..(i - 1) : c[j].out # "converged"].step
    ELSE c[Len(c)].step

\* C1: under solver == 'auto' the back-ends are called in the order
\* newmark_solver, ops_solver; ops_solver is called if and only if
\* newmark_solver returned a result that did not converge; and the result
\* kept for recording (res, and the time series written) is that of the first
\* back-end that converged, or that of ops_solver when neither did.
C1_AutoLadder ==
    \A w \in Workers :
        (Started(w) /\ item[w].solver = "auto") =>
            LET c == Calls(w)
            IN  /\ Len(c) <= 2
                /\ Len(c) >= 1 => c[1].step = "newmark_solver"
                /\ Len(c) = 2 => c[2].step = "ops_solver" /\ c[1].out = "unconverged"
                /\ (pc[w] # "Solve" /\ Len(c) >= 1 /\ c[1].out = "unconverged") => Len(c) = 2
                /\ Recording(w) =>
                      /\ res[w].by = KeptBy(c)
                      /\ (\A i \in 1..Len(c) : c[i].out = "unconverged") => res[w].by = "ops_solver"
                /\ \A i \in 1..Len(writes[w]) :
                      writes[w][i].file = "npy" => writes[w][i].content.series_of = KeptBy(c)

\* An 'auto' item has returned after both back-ends failed to converge and
\* has written the time series of ops_solver.
C1_Witness ==
    \E w \in Workers :
        /\ Returned(w) /\ item[w].solver = "auto"
        /\ Len(Calls(w)) = 2 /\ Calls(w)[2].out = "unconverged"
        /\ \E i \in 1..Len(writes[w]) : writes[w][i].file = "npy"

\* ------------------------------------------------------------------ C2
\* the worker has posted its success message
Succeeded(w) == \E i \in 1..Len(queue) : queue[i].from = w /\ queue[i].kind = "a"

\* C2: when two workers have completed items for the same ground motion, the
\* summary artifact of that ground motion holds one row per completed item.
C2_BothRows ==
    \A g \in GMs :
        Len(files.csv[g]) >=
            Cardinality({w \in Workers : Succeeded(w) /\ item[w].GM_name = g})

\* ------------------------------------------------------------------ C3
\* C3: a worker invoked with the stop event already set writes no artifact
\* and posts nothing but one cancellation message, whatever the state of the
\* shared-memory segments.
C3_StopSetOnlyCancels ==
    \A w \in Workers :
        stopAtEntry[w] =>
            /\ writes[w] = <<>>
            /\ \A i \in 1..Len(Kinds(w)) : Kinds(w)[i] = "e"
            /\ Returned(w) => Kinds(w) = <<"e">>

\* ------------------------------------------------------------------ C4
\* C4: the stop event is polled before any shared-memory segment is
\* attached, and a worker that found it set never attaches.
C4_StopBeforeAttach ==
    \A w \in Workers :
        \A i \in 1..Len(oracle[w]) :
            oracle[w][i].step = "attach" =>
                \E j \in 1..(i - 1) : oracle[w][j].step = "stop" /\ oracle[w][j].out = "clear"

\* ------------------------------------------------------------------ C5
Terminal == {"a", "d", "e"}

\* C5: a terminal message (success, fatal, cancellation) is the last message
\* of its worker, so there is at most one and a warning can only precede it;
\* a worker that has returned has posted one.
C5_OneTerminal ==
    \A w \in Workers :
        LET k == Kinds(w)
        IN  /\ \A i \in 1..Len(k) : k[i] \in Terminal => i = Len(k)
            /\ \A i \in 1..Len(k) : k[i] = "b" => i = 1
            /\ Returned(w) => Len(k) >= 1 /\ k[Len(k)] \in Terminal

\* One worker has returned after a warning and a success message, the other
\* after a fatal message.
C5_Witness ==
    \E w1, w2 \in Workers :
        /\ Returned(w1) /\ Kinds(w1) = <<"b", "a">>
        /\ Returned(w2) /\ Kinds(w2) = <<"d">>

\* ------------------------------------------------------------------ C6
KnownSolvers == {"auto", "OPS", "Newmark-Newton"}

\* the item body has raised
HasError(w) == error[w] # NoneObj

\* the error a failing back-end call is reported with
SolverInvocationFailure == SolverError(Exc("SolverException")).exc

\* C6: an item with an unknown solver identifier that reaches the dispatch
\* fails before any back-end is called, posts one fatal message and nothing
\* else, writes no artifact, and the error of that message is the
\* configuration error, not the error of a failed solver invocation.
C6_ConfigurationError ==
    \A w \in Workers :
        (Started(w) /\ item[w].solver \notin KnownSolvers) =>
            /\ Calls(w) = <<>>
            /\ writes[w] = <<>>
            /\ (Returned(w) /\ HasError(w) /\ error[w].tb[1] = "SDOFError: Wrong solver name") =>
                  /\ Kinds(w) = <<"d">>
                  /\ MsgsOf(w)[1].body.error = "SDOFError: Wrong solver name"
                  /\ MsgsOf(w)[1].body.error # SolverInvocationFailure

\* ------------------------------------------------------------------ C7
WriteFiles(w) == [i \in 1..Len(writes[w]) |-> writes[w][i].file]

\* a step of the worker failed: an attach or a write failed, a call raised
StepFailed(w) == \E i \in 1..Len(oracle[w]) : oracle[w][i].out \in {"fail", "raise"}

\* C7: a kept result that did not converge is not an error.  The worker
\* posts one warning with the ground-motion name, the period and the material
\* parameters, writes the diagnostic while it holds the lock, and goes on to
\* write the summary with solving_converge = 0 and the time series and to
\* post a success message whose convergence field is 0.  A result that
\* converged gives no warning, no diagnostic, and a convergence field of 1.
C7_NonConvergence ==
    \A w \in Workers :
        /\ pc[w] = "WriteDiag" => lock = w
        /\ (Returned(w) /\ HasError(w)) =>
              \/ StepFailed(w)
              \/ item[w].solver \notin KnownSolvers
              \/ item[w].Ti = None
        /\ ((Recording(w) /\ pc[w] # "ConvergenceCheck") \/ Succeeded(w)) =>
              IF res[w].converge
              THEN /\ \A i \in 1..Len(Kinds(w)) : Kinds(w)[i] # "b"
                   /\ \A i \in 1..Len(writes[w]) : writes[w][i].file # "c.json"
                   /\ solving_converge[w] = 1
              ELSE /\ Len(Kinds(w)) >= 1 /\ Kinds(w)[1] = "b"
                   /\ \A i \in 2..Len(Kinds(w)) : Kinds(w)[i] # "b"
                   /\ MsgsOf(w)[1].body.GM_name = item[w].GM_name
                   /\ MsgsOf(w)[1].body.Ti = item[w].Ti
                   /\ MsgsOf(w)[1].body.paras.mat_paras = mat[w]
                   /\ solving_converge[w] = 0
        /\ Succeeded(w) =>
              LET flag == IF res[w].converge THEN 1 ELSE 0
                  n == Len(writes[w])
              IN  /\ Kinds(w) = IF res[w].converge THEN <<"a">> ELSE <<"b", "a">>
                  /\ MsgsOf(w)[Len(Kinds(w))].body.solving_converge = flag
                  /\ WriteFiles(w) = IF res[w].converge THEN <<"csv", "npy">>
                                     ELSE <<"c.json", "csv", "npy">>
                  /\ writes[w][n - 1].content[1].solving_converge = flag

\* A worker whose kept result did not converge has written the diagnostic,
\* the summary and the time series and posted the warning and the success.
C7_Witness ==
    \E w \in Workers :
        /\ Succeeded(w) /\ ~res[w].converge
        /\ Kinds(w) = <<"b", "a">>
        /\ WriteFiles(w) = <<"c.json", "csv", "npy">>

\* ------------------------------------------------------------------ C8
\* the environment gave two workers the same answers wherever both asked
SameAnswers(w1, w2) ==
    \A i \in 1..Len(oracle[w1]) : i <= Len(oracle[w2]) => oracle[w1][i] = oracle[w2][i]

\* C8: two runs of the same item that got the same answers from the
\* environment (the segments, the stop poll, the material function, the
\* back-ends, the writes) write the same artifacts and post the same kinds
\* of messages, whether or not they were held in the pause wait.
C8_PauseTransparent ==
    \A w1, w2 \in Workers :
        (Returned(w1) /\ Returned(w2) /\ item[w1] = item[w2] /\ SameAnswers(w1, w2)) =>
            /\ Kinds(w1) = Kinds(w2)
            /\ WriteFiles(w1) = WriteFiles(w2)
            /\ writes[w1] = writes[w2]

\* The same item was run twice with the same answers, once held in the pause
\* wait and once not, and both runs wrote their artifacts.
C8_Witness ==
    \E w1, w2 \in Workers :
        /\ Returned(w1) /\ Returned(w2) /\ item[w1] = item[w2] /\ SameAnswers(w1, w2)
        /\ waited[w1] /\ ~waited[w2]
        /\ WriteFiles(w1) = <<"c.json", "csv", "npy">>

\* ------------------------------------------------------------------ C9
\* C9 as stated: no worker is ever blocked on the lock while a worker
\* writing the artifacts of another ground motion holds it.
C9_NeverWaitOnOtherGM ==
    \A w1, w2 \in Workers :
        ~ /\ w1 # w2
          /\ Blocked(w1) /\ lock = w2
          /\ item[w1].GM_name # item[w2].GM_name

\* the worker's last step was a write that failed
FailedInWrite(w) ==
    /\ pc[w] \in {"ReportFatal", "Done"}
    /\ Len(oracle[w]) >= 1
    /\ oracle[w][Len(oracle[w])].step \in {"json.dump", "to_csv", "np.save"}
    /\ oracle[w][Len(oracle[w])].out = "fail"

\* C9 amended: the lock is one lock for all ground motions, so a worker can
\* be blocked by a worker of another ground motion, but only by one that
\* took the lock for its own artifact write: the holder is between its
\* acquire and its release, or a write of it failed after the acquire.
C9_WaitOnlyOnWriter ==
    \A w1, w2 \in Workers :
        (w1 # w2 /\ Blocked(w1) /\ lock = w2 /\ item[w1].GM_name # item[w2].GM_name) =>
            InWrite(w2) \/ FailedInWrite(w2)

\* A worker is blocked on the lock while a worker of another ground motion
\* writes its summary.
C9_Witness ==
    \E w1, w2 \in Workers :
        /\ w1 # w2 /\ Blocked(w1) /\ lock = w2
        /\ item[w1].GM_name # item[w2].GM_name
        /\ pc[w2] = "WriteCsv"

\* ------------------------------------------------------------------ C10
\* what a worker owns: its position, its locals, its logs
Own(w) == <<pc[w], Sa[w], mat[w], uy[w], cand[w], res[w], solving_converge[w],
            results[w], error[w], oracle[w], writes[w]>>

C10_State ==
    \A w \in Workers :
        /\ HasError(w) =>
              /\ pc[w] \in {"ReportFatal", "Done"}
              /\ \A i \in 1..Len(Kinds(w)) : Kinds(w)[i] # "a"
              /\ pc[w] = "ReportFatal" =>
                    /\ \A i \in 1..Len(Kinds(w)) : Kinds(w)[i] # "d"
                    /\ ENABLED ReportFatal(w)
              /\ Returned(w) =>
                    /\ Len(Kinds(w)) >= 1
                    /\ \A i \in 1..Len(Kinds(w)) : Kinds(w)[i] = "d" <=> i = Len(Kinds(w))
                    /\ MsgsOf(w)[Len(Kinds(w))].body = [error |-> error[w].exc, tb |-> error[w].tb]
        /\ ~HasError(w) => \A i \in 1..Len(Kinds(w)) : Kinds(w)[i] # "d"

C10_Step ==
    \A w \in Workers :
        HasError(w) =>
            \/ Own(w)' = Own(w)
            \/ /\ pc[w] = "ReportFatal" /\ pc'[w] = "Done"
               /\ <<Sa[w], mat[w], uy[w], cand[w], res[w], solving_converge[w], results[w],
                    error[w], oracle[w], writes[w]>>'
                  = <<Sa[w], mat[w], uy[w], cand[w], res[w], solving_converge[w], results[w],
                      error[w], oracle[w], writes[w]>>
               /\ files' = files

\* C10: once the item body has raised, at whatever step, the worker's only
\* further step is the wrapper's: it posts one fatal message with the error
\* and its trace and returns.  The worker writes no artifact after the
\* exception, posts no success message and runs no step of the body again.
C10_ExceptionIsFatal == []C10_State /\ [][C10_Step]_vars

\* A worker has returned with a fatal message after its time-series write
\* failed, the summary being written already.
C10_Witness ==
    \E w \in Workers :
        /\ Returned(w) /\ HasError(w)
        /\ Kinds(w)[Len(Kinds(w))] = "d"
        /\ WriteFiles(w) = <<"csv">>
        /\ oracle[w][Len(oracle[w])] = [step |-> "np.save", out |-> "fail"]

\* ------------------------------------------------------------------ C11
\* C11: under solver == 'auto' a back-end that raises is the last one
\* called: the item ends with a fatal message, and a second back-end is only
\* ever called after the first returned without converging.
C11_RaiseEndsLadder ==
    \A w \in Workers :
        (Started(w) /\ item[w].solver = "auto") =>
            LET c == Calls(w)
            IN  /\ \A i \in 1..Len(c) :
                      c[i].out = "raise" =>
                          /\ i = Len(c)
                          /\ HasError(w) /\ pc[w] \in {"ReportFatal", "Done"}
                          /\ Returned(w) => Kinds(w) = <<"d">>
                /\ \A i \in 2..Len(c) : c[i - 1].out = "unconverged"

\* An 'auto' item has returned with a fatal message after newmark_solver
\* raised, ops_solver never called.
C11_Witness ==
    \E w \in Workers :
        /\ Returned(w) /\ item[w].solver = "auto"
        /\ Calls(w) = <<[step |-> "newmark_solver", out |-> "raise"]>>
        /\ Kinds(w) = <<"d">>

\* ------------------------------------------------------------------ C12
\* the diagnostics a worker wrote
DiagsOf(w) == SelectSeq(writes[w], LAMBDA x : x.file = "c.json")

\* C12: every diagnostic a worker wrote is still there: no other item's
\* diagnostic has replaced it.
C12_OwnDiagnostic ==
    \A w \in Workers :
        \A i \in 1..Len(DiagsOf(w)) : files.warn = DiagsOf(w)[i].content

\* ------------------------------------------------------------------ C13
MaterialCalls(w) == SelectSeq(oracle[w], LAMBDA e : e.step = "material")

\* C13: the material function is called once per item, and the quotient of
\* its Fy and E is the uy everywhere: the local the solver is called with,
\* the warning, the diagnostic, the uy column of the summary row and the
\* divisor of miu = maxDisp / uy.
C13_YieldDisplacement ==
    \A w \in Workers :
        /\ Len(MaterialCalls(w)) <= 1
        /\ mat[w] # NoneObj =>
              LET q == mat[w].Fy \div mat[w].E
              IN  /\ uy[w] = q
                  /\ \A i \in 1..Len(MsgsOf(w)) :
                        MsgsOf(w)[i].kind = "b" => MsgsOf(w)[i].body.paras.uy = q
                  /\ \A i \in 1..Len(DiagsOf(w)) : DiagsOf(w)[i].content.uy = q
                  /\ \A i \in 1..Len(results[w]) :
                        /\ results[w][i].uy = q
                        /\ results[w][i].miu = results[w][i].maxDisp \div q
                  /\ \A i \in 1..Len(writes[w]) :
                        writes[w][i].file = "csv" =>
                            \A j \in 1..Len(writes[w][i].content) :
                                /\ writes[w][i].content[j].uy = q
                                /\ writes[w][i].content[j].miu
                                       = writes[w][i].content[j].maxDisp \div q

\* A worker has written a diagnostic and a summary row, both with its uy.
C13_Witness ==
    \E w \in Workers :
        /\ Succeeded(w)
        /\ WriteFiles(w) = <<"c.json", "csv", "npy">>
        /\ writes[w][2].content[1].uy = uy[w]

\* ------------------------------------------------------------------ C14
Computing(w) == pc[w] \in {"Fetch", "CheckStop", "PauseWait", "Material", "Dispatch", "Solve"}

C14_State ==
    \A w \in Workers :
        /\ InWrite(w) => lock = w
        /\ lock = w => ~Computing(w)

C14_Step ==
    \A w \in Workers :
        /\ writes'[w] # writes[w] => lock = w /\ lock' = w
        /\ (pc[w] = "WriteCsv" /\ pc'[w] = "WriteNpy") => lock = w /\ lock' = w
        /\ files' # files => \E v \in Workers : lock = v /\ writes'[v] # writes[v]

\* C14: a worker writes an artifact only while it holds the lock, so only
\* one worker is inside a write at a time; the summary and the time series
\* of an item are written in one hold; and the holder of the lock is never
\* attaching, calling the material function or solving.
C14_WritesUnderLock == []C14_State /\ [][C14_Step]_vars

\* One worker writes its time series under the lock while the other one is
\* in a back-end call.
C14_Witness ==
    \E w1, w2 \in Workers :
        /\ pc[w1] = "WriteNpy" /\ lock = w1
        /\ pc[w2] = "Solve"

\* ------------------------------------------------------------------ C15
StopPolls(w) == SelectSeq(oracle[w], LAMBDA e : e.step = "stop")

\* C15: the stop event is polled once per item; a worker that found it clear
\* never posts a cancellation, whenever the event is set afterwards, and
\* ends with a success or a fatal message.
C15_StopPolledOnce ==
    \A w \in Workers :
        /\ Len(StopPolls(w)) <= 1
        /\ (Len(StopPolls(w)) = 1 /\ StopPolls(w)[1].out = "clear") =>
              /\ \A i \in 1..Len(Kinds(w)) : Kinds(w)[i] # "e"
              /\ Returned(w) => Kinds(w)[Len(Kinds(w))] \in {"a", "d"}

\* A worker that found the stop event clear has written its artifacts and is
\* about to post its success although the event has been set meanwhile.
C15_Witness ==
    \E w \in Workers :
        /\ pc[w] = "ReportSuccess" /\ stop_event
        /\ StopPolls(w) = <<[step |-> "stop", out |-> "clear"]>>
        /\ WriteFiles(w) = <<"csv", "npy">>

\* ------------------------------------------------------------------ C17
\* the back-end a named solver identifier stands for
BackendOf(solver) == IF solver = "OPS" THEN "ops_solver" ELSE "newmark_solver"

\* C17: for solver 'OPS' or 'Newmark-Newton' the one back-end of that name
\* is called once and no other, whatever it does: when it returns without
\* converging the item is recorded with solving_converge = 0, when it raises
\* the item ends with a fatal message.
C17_NamedSolverOnce ==
    \A w \in Workers :
        (Started(w) /\ item[w].solver \in {"OPS", "Newmark-Newton"}) =>
            LET c == Calls(w)
            IN  /\ Len(c) <= 1
                /\ \A i \in 1..Len(c) : c[i].step = BackendOf(item[w].solver)
                /\ (Recording(w) \/ Succeeded(w)) =>
                      /\ Len(c) = 1
                      /\ res[w].by = BackendOf(item[w].solver)
                      /\ res[w].converge <=> c[1].out = "converged"
                /\ (Succeeded(w) /\ c[1].out = "unconverged") =>
                      /\ WriteFiles(w) = <<"c.json", "csv", "npy">>
                      /\ writes[w][2].content[1].solving_converge = 0
                /\ (Len(c) = 1 /\ c[1].out = "raise") =>
                      /\ HasError(w) /\ pc[w] \in {"ReportFatal", "Done"}
                      /\ Returned(w) => Kinds(w) = <<"d">>

\* One item with solver 'OPS' was recorded after ops_solver did not converge,
\* another with solver 'Newmark-Newton' ended fatally after newmark_solver
\* raised.
C17_Witness ==
    \E w1, w2 \in Workers :
        /\ Succeeded(w1) /\ item[w1].solver = "OPS"
        /\ Calls(w1) = <<[step |-> "ops_solver", out |-> "unconverged"]>>
        /\ Started(w2) /\ item[w2].solver = "Newmark-Newton" /\ Returned(w2)
        /\ Calls(w2) = <<[step |-> "newmark_solver", out |-> "raise"]>>

\* ------------------------------------------------------------------ C18
\* C18: a worker whose success message is on the queue has written its
\* summary and its time series before and does not hold the lock.
C18_RecordThenReport ==
    \A w \in Workers :
        Succeeded(w) =>
            /\ \E i \in 1..Len(writes[w]) :
                  /\ writes[w][i].file = "csv"
                  /\ i + 1 <= Len(writes[w]) /\ writes[w][i + 1].file = "npy"
            /\ lock # w
            /\ Returned(w)

\* A success message is on the queue and both artifacts of its ground
\* motion exist.
C18_Witness ==
    \E w \in Workers :
        /\ Succeeded(w)
        /\ files.csv[item[w].GM_name] # <<>>
        /\ files.npy[item[w].GM_name] # NoneObj

\* ------------------------------------------------------------------ C19
\* C19: an item without a period only skips the spectral lookup: Sa stays
\* undefined, the material function is called, and when it returns the item
\* goes on to the dispatch instead of failing for the missing period.
C19_NoPeriodGoesOn ==
    \A w \in Workers :
        (Started(w) /\ item[w].Ti = None) =>
            /\ Sa[w] = None
            /\ (Len(MaterialCalls(w)) = 1 /\ MaterialCalls(w)[1].out # "raise") =>
                  ~HasError(w) \/ StepFailed(w) \/ item[w].solver \notin KnownSolvers

\* ------------------------------------------------------------------ C20
\* C20: a worker that has returned does not hold the lock.
C20_LockReleasedOnReturn ==
    \A w \in Workers : Returned(w) => lock # w

\* ------------------------------------------------------------------ C16
\* what a worker has asked of the shared memory, the material function and
\* the back-ends
WorkDone(w) == SelectSeq(oracle[w], LAMBDA e : e.step # "stop")

\* C16: a worker called while the pause is held, the stop event clear, has
\* attached no segment, called neither the material function nor a back-end,
\* written no artifact and posted no message for as long as the pause lasts.
C16_NothingWhilePaused ==
    \A w \in Workers :
        (pausedSince[w] /\ ~pause_event /\ ~stop_event) =>
            /\ WorkDone(w) = <<>>
            /\ writes[w] = <<>>
            /\ Kinds(w) = <<>>

====
